---- MODULE Spec2Model ----
(***************************************************************************)
(* Model of src/src/tree_search.rs: the MCTS driver `search`, the node     *)
(* operations of TreeSearchNode (run, expand, simulate, selection,         *)
(* update_average, get_max_state, get_tree_size), `ucb` and                *)
(* `get_children_from_mutations`.                                          *)
(*                                                                         *)
(* The owning tree of the code (each node owns a Vec of children) is kept  *)
(* as an arena: `nodes` is a sequence of node records, a node is named by  *)
(* its position, the root is node 1 and `children` holds positions.        *)
(* Sequences are 1-based: child index i of the model is index i-1 of the   *)
(* code.                                                                   *)
(*                                                                         *)
(* f64 values are exact rationals <<numerator, denominator>> with a        *)
(* positive denominator, in lowest terms; rounding of f64 is not modelled. *)
(* The recursion of run() is unfolded into steps: `path` is the stack of   *)
(* the nodes whose run() is active, `pc` the position of the innermost     *)
(* frame.                                                                  *)
(***************************************************************************)
EXTENDS Integers, Sequences, FiniteSets, TLC

\* ------------------------------------------------------------------ bounds
\* States are 0..MaxState.
MaxState == 3
\* The loop counts tried are 0..MaxLoops.
MaxLoops == 5

\* ------------------------------------------------------------ f64 helpers
Abs(x) == IF x < 0 THEN -x ELSE x

\* The arithmetic is defined as functions, whose arguments are evaluated once,
\* and used through the operators below them.
gcd[a \in Nat, b \in Nat] == IF b = 0 THEN a ELSE gcd[b, a % b]
GCD(a, b) == gcd[a, b]

norm[n \in Int, d \in Nat] == LET g == gcd[Abs(n), d] IN <<n \div g, d \div g>>
Norm(n, d) == norm[n, d]

FromInt(v) == <<v, 1>>
radd[x \in Seq(Int), y \in Seq(Int)] == norm[x[1] * y[2] + y[1] * x[2], x[2] * y[2]]
RAdd(x, y) == radd[x, y]
rsub[x \in Seq(Int), y \in Seq(Int)] == norm[x[1] * y[2] - y[1] * x[2], x[2] * y[2]]
RSub(x, y) == rsub[x, y]
rmul[x \in Seq(Int), y \in Seq(Int)] == norm[x[1] * y[1], x[2] * y[2]]
RMul(x, y) == rmul[x, y]
rdivint[x \in Seq(Int), k \in Nat] == norm[x[1], x[2] * k]
RDivInt(x, k) == rdivint[x, k]
RAbs(x) == <<Abs(x[1]), x[2]>>
\* x > y; a zero denominator stands for a value above every finite one.
RGt(x, y) == x[1] * y[2] > y[1] * x[2]
RLe(x, y) == ~RGt(x, y)

\* `as i32` of an f64: truncation toward zero.
Trunc(x) == IF x[1] >= 0 THEN x[1] \div x[2] ELSE -((-x[1]) \div x[2])

\* std::f64::MAX: above every score the parameters of the model can produce.
F64_MAX == <<1, 0>>

\* ln(N) in millionths, N = 1..12.
LnMicro(N) ==
    <<0, 693147, 1098612, 1386294, 1609438, 1791759,
      1945910, 2079442, 2197225, 2302585, 2397895, 2484907>>[N]

\* floor(sqrt(x))
isqrt[x \in Nat] == CHOOSE r \in 0..1600 : r * r <= x /\ (r + 1) * (r + 1) > x
ISqrt(x) == isqrt[x]

\* sqrt(ln(N) / n), in thousandths.
SqrtLnOver(N, n) == <<ISqrt(LnMicro(N) \div n), 1000>>

\* ------------------------------------------------------------------ inputs
States == 0..MaxState
NoState == -1
\* The start states tried.
StartStates == {0, MaxState}

Inc(k) == [s \in States |-> (s + k) % (MaxState + 1)]
Id == [s \in States |-> s]

\* The mutation sets tried: three mutations to three distinct new states;
\* mutations that all map a state to itself; a duplicated mutation and a
\* self-map; two mutations whose results meet across branches.
MutationSets ==
    { <<Inc(1), Inc(2), Inc(3)>>,
      <<Id, Id>>,
      <<Inc(1), Inc(1), Id>>,
      <<Inc(1), Inc(2)>> }

\* Evaluators: pure functions State -> integer.
Evaluators ==
    { [s \in States |-> (s * s) % 3],
      [s \in States |-> -Abs(s - 1)] }

\* Values a rollout may return.
RolloutValues == {-4, 0, 3}

UctExplorations == {FromInt(0), FromInt(2)}
MoveAwayConstants == {FromInt(0), <<1, 2>>, FromInt(1)}

VARIABLES
    start_state, mutations, tree, loops,
    uct_exploration, move_away_constant, random_search,
    previous_states, nodes, loop_number,
    pc, path, value, best_state, tree_size,
    rollout_calls, rollout_state, backprop_sum, visits, tv_before, last_step

inputs == <<start_state, mutations, tree, loops,
            uct_exploration, move_away_constant, random_search>>
history == <<rollout_calls, rollout_state, backprop_sum, visits, tv_before, last_step>>
vars == <<inputs, previous_states, nodes, loop_number,
          pc, path, value, best_state, tree_size, history>>

base_node == 1

\* ------------------------------------------------------------ TreeSearchNode
\* TreeSearchNode::new: the node; the caller adds `state` to previous_states.
new(state) ==
    [times_visited |-> 0, average_evaluation |-> FromInt(0),
     state |-> state, children |-> <<>>]

update_average_off_by_one(node, v) ==
    LET tv == node.times_visited + 1 IN
    [node EXCEPT !.times_visited = tv,
                 !.average_evaluation =
                     RAdd(node.average_evaluation,
                          RDivInt(RSub(FromInt(v), node.average_evaluation), tv + 1))]

update_average_twice(node, v) ==
    LET tv == node.times_visited + 2 IN
    [node EXCEPT !.times_visited = tv,
                 !.average_evaluation =
                     RAdd(node.average_evaluation,
                          RDivInt(RSub(FromInt(v), node.average_evaluation), tv))]

update_average(node, v) ==
    LET tv == node.times_visited + 1 IN
    [node EXCEPT !.times_visited = tv,
                 !.average_evaluation =
                     RAdd(node.average_evaluation,
                          RDivInt(RSub(FromInt(v), node.average_evaluation), tv))]

ucb_no_unvisited_case(average_evaluation, exploration, times_visited, total_times_visited) ==
    IF times_visited = 0
    THEN FromInt(0)
    ELSE RAdd(average_evaluation,
              RMul(exploration, SqrtLnOver(total_times_visited, times_visited)))

ucb(average_evaluation, exploration, times_visited, total_times_visited) ==
    IF times_visited = 0
    THEN F64_MAX
    ELSE RAdd(average_evaluation,
              RMul(exploration, SqrtLnOver(total_times_visited, times_visited)))

\* The UCB score of child `index` of node `id`.
child_ucb_score(ns, id, index) ==
    LET child == ns[ns[id].children[index]] IN
    ucb(child.average_evaluation, uct_exploration,
        child.times_visited, ns[id].times_visited)

\* The loop of best_ucb_score_index from `index` on.
RECURSIVE ucb_scan(_, _, _, _, _)
ucb_scan(ns, id, index, best_ucb_score, best_index) ==
    IF index > Len(ns[id].children)
    THEN best_index
    ELSE IF RGt(child_ucb_score(ns, id, index), best_ucb_score)
         THEN ucb_scan(ns, id, index + 1, child_ucb_score(ns, id, index), index)
         ELSE ucb_scan(ns, id, index + 1, best_ucb_score, best_index)

\* The indices best_ucb_score_index may return: any child in random mode.
best_ucb_score_index(ns, id) ==
    IF random_search
    THEN 1..Len(ns[id].children)
    ELSE {ucb_scan(ns, id, 1, FromInt(0), 1)}

\* The filter_map of get_children_from_mutations from mutation `i` on:
\* the states of the children made and the set after the inserts.
RECURSIVE children_scan(_, _, _, _)
children_scan(state, i, made, previous) ==
    IF i > Len(mutations)
    THEN [states |-> made, previous_states |-> previous]
    ELSE LET child_state == mutations[i][state] IN
         IF child_state \in previous
         THEN children_scan(state, i + 1, made, previous)
         ELSE children_scan(state, i + 1, Append(made, child_state),
                            previous \cup {child_state})

RECURSIVE children_scan_no_insert(_, _, _, _)
children_scan_no_insert(state, i, made, previous) ==
    IF i > Len(mutations)
    THEN [states |-> made,
          previous_states |-> previous \cup {made[k] : k \in 1..Len(made)}]
    ELSE LET child_state == mutations[i][state] IN
         IF child_state \in previous
         THEN children_scan_no_insert(state, i + 1, made, previous)
         ELSE children_scan_no_insert(state, i + 1, Append(made, child_state), previous)

get_children_from_mutations_late_insert(state, previous) ==
    children_scan_no_insert(state, 1, <<>>, previous)

\* The filter checks a candidate only against the parent's own state and the
\* children made so far, not against the whole visited set.
get_children_from_mutations_local_dedup(state, previous) ==
    LET made == children_scan(state, 1, <<>>, {state})
    IN  [states |-> made.states,
         previous_states |-> previous \cup made.previous_states]

get_children_from_mutations(state, previous) ==
    children_scan(state, 1, <<>>, previous)

\* expand(): the node to simulate when expansion is deferred, `self`.
expanded_self(id) == id

expanded_last_child(children) == children[Len(children)]

\* expand(): the node to simulate after an expansion, &self.children[0].
expanded_first_child(children) == children[1]

expand_never_defers(node) == FALSE

\* The early return of expand(): a node never visited is not expanded.
expand_defers(node) == node.times_visited = 0

dead_end_value_no_penalty(average_evaluation) ==
    Trunc(average_evaluation)

\* The dead-end value of run(): (average - |average| * move_away_constant) as i32.
dead_end_value_plus(average_evaluation) ==
    Trunc(RAdd(average_evaluation, RMul(RAbs(average_evaluation), move_away_constant)))

dead_end_value(average_evaluation) ==
    Trunc(RSub(average_evaluation, RMul(RAbs(average_evaluation), move_away_constant)))

RECURSIVE get_max_state_from(_, _, _, _)
RECURSIVE get_max_state_last(_, _)
get_max_state_last(ns, id) ==
    get_max_state_from(ns, id, 1, ns[id].state)
\* The loop of get_max_state over the children from `index` on.
get_max_state_from(ns, id, index, best) ==
    IF index > Len(ns[id].children)
    THEN best
    ELSE LET child_max_state == get_max_state_last(ns, ns[id].children[index]) IN
         get_max_state_from(ns, id, index + 1,
             IF tree[child_max_state] >= tree[best] THEN child_max_state ELSE best)

RECURSIVE get_max_state_loop(_, _, _, _)
RECURSIVE get_max_state(_, _)
get_max_state(ns, id) ==
    get_max_state_loop(ns, id, 1, ns[id].state)
get_max_state_loop(ns, id, index, best) ==
    IF index > Len(ns[id].children)
    THEN best
    ELSE LET child_max_state == get_max_state(ns, ns[id].children[index]) IN
         get_max_state_loop(ns, id, index + 1,
             IF tree[child_max_state] > tree[best] THEN child_max_state ELSE best)

RECURSIVE get_tree_size_loop(_, _, _, _)
RECURSIVE get_tree_size(_, _)
get_tree_size(ns, id) ==
    get_tree_size_loop(ns, id, 1, 1)
get_tree_size_loop(ns, id, index, size) ==
    IF index > Len(ns[id].children)
    THEN size
    ELSE get_tree_size_loop(ns, id, index + 1,
                            size + get_tree_size(ns, ns[id].children[index]))

\* ------------------------------------------------------------------- search
\* search() up to the loop: the mutation set, the empty set, the root node.
Init ==
    /\ start_state \in StartStates
    /\ mutations \in MutationSets
    /\ tree \in Evaluators
    /\ loops \in 0..MaxLoops
    /\ uct_exploration \in UctExplorations
    /\ move_away_constant \in MoveAwayConstants
    /\ random_search \in BOOLEAN
    /\ previous_states = {start_state}
    /\ nodes = <<new(start_state)>>
    /\ loop_number = 0
    /\ pc = "loop"
    /\ path = <<>>
    /\ value = 0
    /\ best_state = NoState
    /\ tree_size = 0
    /\ rollout_calls = 0
    /\ rollout_state = NoState
    /\ backprop_sum = <<0>>
    /\ visits = <<0>>
    /\ tv_before = <<0>>
    /\ last_step = [kind |-> "new", node |-> base_node,
                    old_average |-> FromInt(0), value |-> 0]

loop_continues_inclusive == loop_number <= loops

\* for loop_number in 0..loops
loop_continues == loop_number < loops

cur == path[Len(path)]

\* What every return from run() does to the frames.
Return(v) ==
    /\ value' = v
    /\ path' = SubSeq(path, 1, Len(path) - 1)
    /\ pc' = IF Len(path) = 1 THEN "loop" ELSE "return"

\* One iteration of the loop begins: base_node.run(...)
Loop ==
    /\ pc = "loop"
    /\ loop_continues
    /\ loop_number' = loop_number + 1
    /\ path' = <<base_node>>
    /\ pc' = "run"
    /\ visits' = [visits EXCEPT ![base_node] = @ + 1]
    /\ tv_before' = [i \in 1..Len(nodes) |-> nodes[i].times_visited]
    /\ last_step' = [kind |-> "loop", node |-> base_node,
                     old_average |-> nodes[base_node].average_evaluation, value |-> 0]
    /\ UNCHANGED <<inputs, previous_states, nodes, value, best_state, tree_size,
                   rollout_calls, rollout_state, backprop_sum>>

\* run() at a childless node never visited: expand returns the node itself,
\* which is simulated.
RunSimulate ==
    /\ pc = "run"
    /\ nodes[cur].children = <<>>
    /\ expand_defers(nodes[cur])
    /\ \E v \in RolloutValues :
        /\ nodes' = [nodes EXCEPT ![cur] = update_average(@, v)]
        /\ backprop_sum' = [backprop_sum EXCEPT ![cur] = @ + v]
        /\ last_step' = [kind |-> "simulate", node |-> cur,
                         old_average |-> nodes[cur].average_evaluation, value |-> v]
        /\ Return(v)
    /\ rollout_calls' = rollout_calls + 1
    /\ rollout_state' = nodes[expanded_self(cur)].state
    /\ UNCHANGED <<inputs, previous_states, loop_number, best_state, tree_size,
                   visits, tv_before>>

\* run() at a childless visited node with an unvisited successor: expand makes
\* the children and the first one is simulated.
RunExpand ==
    /\ pc = "run"
    /\ nodes[cur].children = <<>>
    /\ ~expand_defers(nodes[cur])
    /\ LET made == get_children_from_mutations(nodes[cur].state, previous_states)
           count == Len(made.states)
           ids == [k \in 1..count |-> Len(nodes) + k]
       IN  /\ count > 0
           /\ previous_states' = made.previous_states
           /\ \E v \in RolloutValues :
               /\ nodes' = [nodes EXCEPT ![cur] =
                               update_average([@ EXCEPT !.children = ids], v)]
                           \o [k \in 1..count |-> new(made.states[k])]
               /\ backprop_sum' = [backprop_sum EXCEPT ![cur] = @ + v]
                                  \o [k \in 1..count |-> 0]
               /\ last_step' = [kind |-> "expand", node |-> cur,
                                old_average |-> nodes[cur].average_evaluation,
                                value |-> v]
               /\ Return(v)
           /\ visits' = visits \o [k \in 1..count |-> 0]
           /\ tv_before' = tv_before \o [k \in 1..count |-> 0]
           /\ rollout_state' = nodes'[expanded_first_child(ids)].state
    /\ rollout_calls' = rollout_calls + 1
    /\ UNCHANGED <<inputs, loop_number, best_state, tree_size>>

\* run() at a childless visited node whose successors are all visited: the
\* dead-end branch.
RunDeadEnd ==
    /\ pc = "run"
    /\ nodes[cur].children = <<>>
    /\ ~expand_defers(nodes[cur])
    /\ LET made == get_children_from_mutations(nodes[cur].state, previous_states)
           v == dead_end_value(nodes[cur].average_evaluation)
       IN  /\ Len(made.states) = 0
           /\ previous_states' = made.previous_states
           /\ nodes' = [nodes EXCEPT ![cur] = update_average(@, v)]
           /\ backprop_sum' = [backprop_sum EXCEPT ![cur] = @ + v]
           /\ last_step' = [kind |-> "dead_end", node |-> cur,
                            old_average |-> nodes[cur].average_evaluation,
                            value |-> v]
           /\ Return(v)
    /\ UNCHANGED <<inputs, loop_number, best_state, tree_size,
                   rollout_calls, rollout_state, visits, tv_before>>

\* run() at a node with children: the child chosen is run.
RunSelect ==
    /\ pc = "run"
    /\ nodes[cur].children # <<>>
    /\ \E best_index \in best_ucb_score_index(nodes, cur) :
        LET child == nodes[cur].children[best_index] IN
        /\ path' = Append(path, child)
        /\ visits' = [visits EXCEPT ![child] = @ + 1]
        /\ last_step' = [kind |-> "select", node |-> cur,
                         old_average |-> nodes[cur].average_evaluation,
                         value |-> best_index]
    /\ UNCHANGED <<inputs, previous_states, nodes, loop_number, pc, value,
                   best_state, tree_size, rollout_calls, rollout_state,
                   backprop_sum, tv_before>>

\* The child's run() has returned `value`: update_average and return it.
Backprop ==
    /\ pc = "return"
    /\ nodes' = [nodes EXCEPT ![cur] = update_average(@, value)]
    /\ backprop_sum' = [backprop_sum EXCEPT ![cur] = @ + value]
    /\ last_step' = [kind |-> "backprop", node |-> cur,
                     old_average |-> nodes[cur].average_evaluation, value |-> value]
    /\ Return(value)
    /\ UNCHANGED <<inputs, previous_states, loop_number, best_state, tree_size,
                   rollout_calls, rollout_state, visits, tv_before>>

\* After the loop: get_max_state and get_tree_size of the root.
Extract ==
    /\ pc = "loop"
    /\ ~loop_continues
    /\ best_state' = get_max_state(nodes, base_node)
    /\ tree_size' = get_tree_size(nodes, base_node)
    /\ pc' = "done"
    /\ last_step' = [kind |-> "extract", node |-> base_node,
                     old_average |-> nodes[base_node].average_evaluation, value |-> 0]
    /\ UNCHANGED <<inputs, previous_states, nodes, loop_number, path, value,
                   rollout_calls, rollout_state, backprop_sum, visits, tv_before>>

Next ==
    \/ Loop
    \/ RunSimulate
    \/ RunExpand
    \/ RunDeadEnd
    \/ RunSelect
    \/ Backprop
    \/ Extract

Spec == Init /\ [][Next]_vars

\* The searches from start state 0 with one evaluator and one exploration
\* constant: the evaluator is read by Extract alone and the rollout values are
\* free, so these inputs take no part in whether a search ends.
InitOneEvaluator ==
    /\ Init
    /\ start_state = 0
    /\ tree = [s \in States |-> (s * s) % 3]
    /\ uct_exploration = FromInt(2)

\* search() is one sequential call: a step that can be taken is taken.
FairSpec == InitOneEvaluator /\ [][Next]_vars /\ WF_vars(Next)

\* ------------------------------------------------------------------ helpers
NodeIds == 1..Len(nodes)
BetweenIterations == pc \in {"loop", "done"}

Root == nodes[base_node]
Average(i) == nodes[i].average_evaluation
ChildCount(i) == Len(nodes[i].children)
Child(i, k) == nodes[nodes[i].children[k]]
Score(i, k) == child_ucb_score(nodes, i, k)
Fractional(x) == x[2] > 1

\* Nodes in parent-before-children, children-in-order traversal.
RECURSIVE PreOrderFrom(_, _)
PreOrder(id) == <<id>> \o PreOrderFrom(id, 1)
PreOrderFrom(id, index) ==
    IF index > Len(nodes[id].children)
    THEN <<>>
    ELSE PreOrder(nodes[id].children[index]) \o PreOrderFrom(id, index + 1)

\* A non-random selection has just been made at node last_step.node.
JustSelected == pc = "run" /\ last_step.kind = "select" /\ ~random_search
\* The dead-end branch has just been taken at node last_step.node.
JustDeadEnd == last_step.kind = "dead_end"

\* Scenario A: three mutations, each producing a distinct new state.
ScenarioA ==
    /\ Len(mutations) = 3
    /\ \A i \in 1..3 : mutations[i][start_state] # start_state
    /\ \A i, j \in 1..3 : i # j => mutations[i][start_state] # mutations[j][start_state]

\* Scenario C: every mutation maps the start state to itself, the only
\* visited state.
ScenarioC == \A i \in 1..Len(mutations) : mutations[i][start_state] = start_state

\* ------------------------------------------------------------------- claims

\* C1: no two distinct nodes of the tree hold equal states, whatever the
\* start state, the mutation set and the rollout results.
C1_NoDuplicateStates ==
    \A i, j \in NodeIds : i # j => nodes[i].state # nodes[j].state

\* A finished search in which an expansion dropped a mutation's result
\* (a duplicate, a self-map or a state of another branch).
C1_Witness ==
    /\ pc = "done"
    /\ Len(nodes) >= 3
    /\ \E i \in NodeIds : ChildCount(i) > 0 /\ ChildCount(i) < Len(mutations)

\* C2 as stated: in scenario A with loop_count = 1 the tree has exactly 2
\* nodes and the root has times_visited = 1.
C2_Original ==
    (pc = "done" /\ ScenarioA /\ loops = 1)
        => (tree_size = 2 /\ Root.times_visited = 1)

\* C2 amended: in scenario A with loop_count = 1 the tree has exactly 1 node,
\* the root, which was simulated itself and not expanded, with
\* times_visited = 1.
C2_ScenarioA ==
    (pc = "done" /\ ScenarioA /\ loops = 1)
        => (tree_size = 1 /\ Len(nodes) = 1 /\ Root.children = <<>>
            /\ Root.times_visited = 1 /\ rollout_calls = 1)

C2_Witness == pc = "done" /\ ScenarioA /\ loops = 1

\* C3: in non-random mode the child selected has the greatest UCB1 score of
\* all children, and is the earliest child with that score.
C3_SelectsGreatestScore ==
    JustSelected =>
        LET i == last_step.node
            chosen == last_step.value
        IN  \A k \in 1..ChildCount(i) :
                /\ RLe(Score(i, k), Score(i, chosen))
                /\ k < chosen => RGt(Score(i, chosen), Score(i, k))

\* C4: in non-random mode, when some child has times_visited = 0 the child
\* selected has times_visited = 0 and is the earliest such child.
C4_UnvisitedFirst ==
    (JustSelected
     /\ \E k \in 1..ChildCount(last_step.node) :
            Child(last_step.node, k).times_visited = 0)
        => LET i == last_step.node
               chosen == last_step.value
           IN  /\ Child(i, chosen).times_visited = 0
               /\ \A k \in 1..(chosen - 1) : Child(i, k).times_visited # 0

\* An unvisited child was selected past a visited sibling of positive score.
C4_Witness ==
    /\ JustSelected
    /\ last_step.value > 1
    /\ Child(last_step.node, last_step.value).times_visited = 0
    /\ Child(last_step.node, 1).times_visited > 0
    /\ RGt(Score(last_step.node, 1), FromInt(0))

\* C5: times_visited never decreases; between iterations the root's
\* times_visited is the number of iterations run and every node's
\* times_visited is the number of iterations whose path included it, one more
\* than before the iteration for the nodes on its path and unchanged for the
\* others.
C5_VisitCounting ==
    /\ \A i \in NodeIds : nodes[i].times_visited >= tv_before[i]
    /\ BetweenIterations =>
        /\ Root.times_visited = loop_number
        /\ \A i \in NodeIds :
            /\ nodes[i].times_visited = visits[i]
            /\ nodes[i].times_visited - tv_before[i] \in {0, 1}

\* A finished search with a visited inner path and a node never run.
C5_Witness ==
    /\ pc = "done"
    /\ \E i, j \in NodeIds :
        /\ i # base_node /\ nodes[i].times_visited >= 2
        /\ nodes[j].times_visited = 0
        /\ nodes[i].times_visited = tv_before[i] + 1
    /\ \E i \in NodeIds : nodes[i].times_visited = tv_before[i] /\ tv_before[i] > 0

\* C6: with loop_count = 0 search runs no iteration and no rollout and
\* returns the start state and tree size 1.
C6_ZeroLoops ==
    (pc = "done" /\ loops = 0)
        => /\ best_state = start_state
           /\ tree_size = 1
           /\ rollout_calls = 0
           /\ loop_number = 0
           /\ Root.times_visited = 0

C6_Witness == pc = "done" /\ loops = 0

\* C7: the state returned is the state of a node of the tree, no node's state
\* scores higher, and it is the first of the best-scoring states in
\* parent-before-children, children-in-order traversal.
C7_BestState ==
    pc = "done" =>
        LET order == PreOrder(base_node)
            best(k) == \A j \in 1..Len(order) :
                           tree[nodes[order[j]].state] <= tree[nodes[order[k]].state]
            first == CHOOSE k \in 1..Len(order) :
                         best(k) /\ \A j \in 1..(k - 1) : ~best(j)
        IN  /\ \E i \in NodeIds : nodes[i].state = best_state
            /\ \A i \in NodeIds : tree[best_state] >= tree[nodes[i].state]
            /\ tree[best_state] >= tree[start_state]
            /\ best_state = nodes[order[first]].state

\* A finished search whose best score is shared by two nodes, neither the root.
C7_Witness ==
    /\ pc = "done"
    /\ best_state # start_state
    /\ \E i \in NodeIds :
        /\ nodes[i].state # best_state
        /\ tree[nodes[i].state] = tree[best_state]
        /\ nodes[i].state # start_state

\* C8 as stated: in scenario C a dead-end iteration at the root strictly
\* decreases the absolute value of the root's average, for every nonzero
\* average and every move_away_constant > 0.
C8_Original ==
    (JustDeadEnd /\ ScenarioC /\ last_step.node = base_node
     /\ last_step.old_average # FromInt(0)
     /\ RGt(move_away_constant, FromInt(0)))
        => RGt(RAbs(last_step.old_average), RAbs(Root.average_evaluation))

\* C8 amended: the same for every positive average and every
\* move_away_constant in (0, 1].
C8_PositiveAverageShrinks ==
    (JustDeadEnd /\ ScenarioC /\ last_step.node = base_node
     /\ RGt(last_step.old_average, FromInt(0))
     /\ RGt(move_away_constant, FromInt(0))
     /\ RLe(move_away_constant, FromInt(1)))
        => /\ RGt(RAbs(last_step.old_average), RAbs(Root.average_evaluation))
           /\ RGt(Root.average_evaluation, FromInt(0))

\* A repeated dead-end at the root, from a positive fractional average.
C8_Witness ==
    /\ JustDeadEnd /\ ScenarioC /\ last_step.node = base_node
    /\ RGt(last_step.old_average, FromInt(0))
    /\ Fractional(last_step.old_average)
    /\ RGt(move_away_constant, FromInt(0))
    /\ Root.times_visited >= 3

\* C9: a run() that takes the dead-end branch at a node never increases that
\* node's average_evaluation.
C9_DeadEndNeverIncreases ==
    JustDeadEnd =>
        RLe(Average(last_step.node), last_step.old_average)

\* A dead-end at a node whose average was negative and fractional.
C9_Witness ==
    /\ JustDeadEnd
    /\ last_step.old_average[1] < 0
    /\ Fractional(last_step.old_average)

C11_RunsLoopCountIterations ==
    /\ <>(pc = "done")
    /\ [](pc = "done" => loop_number = loops)
    /\ [](loop_number <= loops)

\* A search of the largest loop count has returned from a tree three deep.
C11_Witness ==
    /\ pc = "done"
    /\ loops = MaxLoops
    /\ loop_number = loops
    /\ \E i \in NodeIds : i # base_node /\ ChildCount(i) > 0

\* The innermost run() is at a childless node.
AtLeaf == pc = "run" /\ nodes[cur].children = <<>>
\* The successors of node i's state not yet in the visited set.
Unvisited(i) ==
    {mutations[k][nodes[i].state] : k \in 1..Len(mutations)} \ previous_states
\* Nothing of the tree but node i changes in the step, and node i keeps its
\* state.
OnlyNodeChanges(i) ==
    /\ \A j \in NodeIds : j # i => nodes'[j] = nodes[j]
    /\ nodes'[i].state = nodes[i].state

\* C12: a run() at a childless visited node all of whose successors are
\* visited calls no rollout, creates no node, leaves the visited set alone,
\* increments times_visited of that node alone (its ancestors follow as the
\* value returns), and returns the truncation of
\* average - |average| * move_away_constant taken before the update; every
\* ancestor is updated with that same value.
C12_DeadEndStep ==
    /\ [][(AtLeaf /\ nodes[cur].times_visited >= 1 /\ Unvisited(cur) = {})
            => /\ rollout_calls' = rollout_calls
               /\ rollout_state' = rollout_state
               /\ Len(nodes') = Len(nodes)
               /\ previous_states' = previous_states
               /\ OnlyNodeChanges(cur)
               /\ nodes'[cur].children = <<>>
               /\ nodes'[cur].times_visited = nodes[cur].times_visited + 1
               /\ value' = Trunc(RSub(Average(cur),
                                      RMul(RAbs(Average(cur)), move_away_constant)))
               /\ RMul(FromInt(nodes'[cur].times_visited), nodes'[cur].average_evaluation)
                    = RAdd(RMul(FromInt(nodes[cur].times_visited), Average(cur)),
                           FromInt(value'))]_vars
    /\ [][pc = "return"
            => /\ value' = value
               /\ OnlyNodeChanges(cur)
               /\ nodes'[cur].times_visited = nodes[cur].times_visited + 1
               /\ RMul(FromInt(nodes'[cur].times_visited), nodes'[cur].average_evaluation)
                    = RAdd(RMul(FromInt(nodes[cur].times_visited), Average(cur)),
                           FromInt(value))]_vars

\* The value of a dead-end two levels down has reached the root: the penalty
\* was not zero.
C12_Witness ==
    /\ pc = "loop"
    /\ last_step.kind = "backprop"
    /\ last_step.node = base_node
    /\ \E i \in NodeIds :
        /\ i # base_node
        /\ nodes[i].children = <<>>
        /\ nodes[i].times_visited >= 2
        /\ nodes[i].times_visited = tv_before[i] + 1
        /\ RMul(FromInt(nodes[i].times_visited), Average(i))
             # RMul(FromInt(nodes[i].times_visited), FromInt(value))
        /\ value # 0

\* C13: a run() at a childless node never visited creates no children and
\* inserts nothing into the visited set, and calls the rollout on that node's
\* own state; so every node with children has times_visited >= 2, and a UCB
\* score is never computed under a parent visited 0 or 1 times.
C13_DeferredExpansion ==
    /\ [][(AtLeaf /\ nodes[cur].times_visited = 0)
            => /\ Len(nodes') = Len(nodes)
               /\ previous_states' = previous_states
               /\ OnlyNodeChanges(cur)
               /\ nodes'[cur].children = <<>>
               /\ rollout_calls' = rollout_calls + 1
               /\ rollout_state' = nodes[cur].state]_vars
    /\ [](\A i \in NodeIds : nodes[i].children # <<>> => nodes[i].times_visited >= 2)
    /\ []((pc = "run" /\ nodes[cur].children # <<>>) => nodes[cur].times_visited >= 2)

\* A child chosen by UCB is simulated on its first visit, under a parent
\* visited twice.
C13_Witness ==
    /\ last_step.kind = "simulate"
    /\ last_step.node # base_node
    /\ ~random_search
    /\ rollout_state = nodes[last_step.node].state
    /\ Root.times_visited = 2

\* The distinct successors of `state` outside `previous`, in mutation order,
\* from mutation k on.
RECURSIVE FreshSuccessorsFrom(_, _, _)
FreshSuccessorsFrom(state, previous, k) ==
    IF k > Len(mutations)
    THEN <<>>
    ELSE LET s == mutations[k][state]
             first == s \notin previous /\ \A j \in 1..(k - 1) : mutations[j][state] # s
         IN  (IF first THEN <<s>> ELSE <<>>) \o FreshSuccessorsFrom(state, previous, k + 1)

\* C14: a run() at a childless visited node with an unvisited successor makes
\* its children, in mutation order, one per distinct unvisited successor
\* state; the rollout is called once, on the state of the first child; no
\* new child is updated in that step.
C14_ExpansionStep ==
    [][(AtLeaf /\ nodes[cur].times_visited >= 1 /\ Unvisited(cur) # {})
        => LET fresh == FreshSuccessorsFrom(nodes[cur].state, previous_states, 1)
               kids == nodes'[cur].children
           IN  /\ Len(kids) = Len(fresh)
               /\ Len(nodes') = Len(nodes) + Len(fresh)
               /\ \A k \in 1..Len(kids) :
                    /\ kids[k] \notin NodeIds
                    /\ kids[k] \in 1..Len(nodes')
                    /\ nodes'[kids[k]] = new(fresh[k])
               /\ \A j, k \in 1..Len(kids) : j # k => kids[j] # kids[k]
               /\ \A j \in NodeIds : j # cur => nodes'[j] = nodes[j]
               /\ rollout_calls' = rollout_calls + 1
               /\ rollout_state' = fresh[1]
               /\ previous_states' = previous_states \cup Unvisited(cur)]_vars

\* An expansion made several children: the rollout ran on the first, the
\* others wait.
C14_Witness ==
    /\ last_step.kind = "expand"
    /\ ChildCount(last_step.node) >= 2
    /\ rollout_state = Child(last_step.node, 1).state
    /\ \A k \in 1..ChildCount(last_step.node) :
         Child(last_step.node, k).times_visited = 0

NodeStates == {nodes[i].state : i \in NodeIds}
Expanded == {i \in NodeIds : nodes[i].children # <<>>}
Max(a, b) == IF a >= b THEN a ELSE b

RECURSIVE SumChildVisits(_, _)
SumChildVisits(i, k) ==
    IF k > ChildCount(i)
    THEN 0
    ELSE Child(i, k).times_visited + SumChildVisits(i, k + 1)

\* C15: the visited set is exactly the set of the states of the nodes of the
\* tree, at every step (a state enters it in the step that makes its node),
\* and its size is get_tree_size of the root.
C15_VisitedSetIsTree ==
    /\ previous_states = NodeStates
    /\ Cardinality(previous_states) = get_tree_size(nodes, base_node)
    /\ pc = "done" => tree_size = Cardinality(previous_states)

\* A finished search with a tree of four or more nodes, three levels deep.
C15_Witness ==
    /\ pc = "done"
    /\ tree_size >= 4
    /\ \E i \in Expanded : i # base_node

\* C16: the visited set and the children of the nodes change only in a step
\* of run() at a childless visited node (an expansion); the visited set never
\* loses a state, and children once made are never replaced or reordered.
C16_OnlyExpansionChangesTree ==
    [][/\ previous_states \subseteq previous_states'
       /\ Len(nodes') >= Len(nodes)
       /\ \A i \in NodeIds :
            /\ nodes'[i].state = nodes[i].state
            /\ nodes[i].children # <<>> => nodes'[i].children = nodes[i].children
       /\ (\/ previous_states' # previous_states
           \/ Len(nodes') # Len(nodes)
           \/ \E i \in NodeIds : nodes'[i].children # nodes[i].children)
            => /\ AtLeaf
               /\ nodes[cur].times_visited >= 1
               /\ last_step'.kind = "expand"
               /\ \A i \in NodeIds : i # cur => nodes'[i].children = nodes[i].children]_vars

\* The extraction has run over a tree that expansions built.
C16_Witness ==
    /\ pc = "done"
    /\ Cardinality(Expanded) >= 2
    /\ best_state # start_state

\* A run() at node i would take the dead-end branch.
Exhausted(i) ==
    /\ nodes[i].children = <<>>
    /\ nodes[i].times_visited >= 1
    /\ Unvisited(i) = {}

\* C17: a node where run() took the dead-end branch stays a dead end: every
\* later run() there takes the dead-end branch, it gets no children and no
\* rollout. In scenario C iteration 1 simulates the root, every later
\* iteration is a dead end at the root and the tree stays at one node.
C17_DeadEndsArePermanent ==
    /\ [](JustDeadEnd => Exhausted(last_step.node))
    /\ [][\A i \in NodeIds : Exhausted(i) => Exhausted(i)']_vars
    /\ [][(pc = "run" /\ Exhausted(cur))
            => /\ last_step'.kind = "dead_end"
               /\ rollout_calls' = rollout_calls
               /\ Len(nodes') = Len(nodes)]_vars
    /\ [](ScenarioC =>
            /\ Len(nodes) = 1
            /\ rollout_calls = (IF Root.times_visited >= 1 THEN 1 ELSE 0)
            /\ Root.times_visited >= 1 => Exhausted(base_node)
            /\ (pc = "loop" /\ loop_number = 1) => last_step.kind = "simulate"
            /\ (pc = "loop" /\ loop_number >= 2) => last_step.kind = "dead_end")

\* A node below the root has been a dead end in two iterations or more.
C17_Witness ==
    /\ JustDeadEnd
    /\ last_step.node # base_node
    /\ nodes[last_step.node].times_visited >= 3

\* C18: between iterations every node with children has
\* times_visited = 2 + the sum of its children's times_visited; the first
\* child, simulated by the expansion, keeps times_visited 0 and average 0 in
\* that iteration.
C18_VisitAccounting ==
    /\ BetweenIterations =>
        \A i \in Expanded : nodes[i].times_visited = 2 + SumChildVisits(i, 1)
    /\ last_step.kind = "expand" =>
        /\ Child(last_step.node, 1).times_visited = 0
        /\ Child(last_step.node, 1).average_evaluation = FromInt(0)
        /\ rollout_state = Child(last_step.node, 1).state

\* A finished search with an inner node run through its children twice or more.
C18_Witness ==
    /\ pc = "done"
    /\ \E i \in Expanded : nodes[i].times_visited >= 4
    /\ \E i \in Expanded : i # base_node

\* C19: an iteration expands at most one node and adds at most
\* |mutations| nodes, the first adds none; after N iterations the tree has at
\* least 1 and at most 1 + max(0, N - 1) * |mutations| nodes; an iteration
\* calls the rollout at most once.
C19_BoundedGrowth ==
    /\ [](/\ get_tree_size(nodes, base_node) >= 1
          /\ get_tree_size(nodes, base_node)
               <= 1 + Max(0, loop_number - 1) * Len(mutations)
          /\ Cardinality(Expanded) <= Max(0, loop_number - 1)
          /\ \A i \in NodeIds : ChildCount(i) <= Len(mutations)
          /\ loop_number <= 1 => Len(nodes) = 1
          /\ rollout_calls <= loop_number
          /\ pc = "done" => tree_size <= 1 + Max(0, loops - 1) * Len(mutations))
    /\ [][Len(nodes') # Len(nodes)
            => /\ pc = "run" /\ pc' # "run"
               /\ Len(nodes') - Len(nodes) \in 1..Len(mutations)
               /\ Cardinality(Expanded') = Cardinality(Expanded) + 1
               /\ loop_number >= 2]_vars
    /\ [][rollout_calls' # rollout_calls
            => /\ pc = "run" /\ pc' # "run"
               /\ rollout_calls' = rollout_calls + 1]_vars
    /\ [][(pc # "run" /\ pc' = "run") => loop_number' = loop_number + 1]_vars

\* A finished search that attains the upper bound: its second iteration
\* expanded the root into |mutations| children, and every iteration called
\* the rollout once.
C19_Witness ==
    /\ pc = "done"
    /\ loops >= 2
    /\ Len(nodes) > 1
    /\ tree_size = 1 + Max(0, loops - 1) * Len(mutations)
    /\ rollout_calls = loops

====
